---- MODULE Spec2Model ----
(***************************************************************************)
(* Portfolio API (backend/main.py): CRUD handlers over the in-memory dict  *)
(* PROJECTS.  Strings are TLA+ strings, so the length limits of the        *)
(* pydantic models are checked on real lengths.  The dict is an ordered    *)
(* association list, as a Python dict keeps insertion order.               *)
(***************************************************************************)
EXTENDS Integers, Sequences, FiniteSets, TLC

VARIABLES PROJECTS, uuids, last, pre, deleted, nreq, threads

vars == <<PROJECTS, uuids, last, pre, deleted, nreq, threads>>

(* ------------------------------ bounds -------------------------------- *)

\* requests served in one run of Spec (rich payloads)
MaxRequests == 3

\* requests served in one run of SpecLife (small payloads, longer runs)
MaxLifeRequests == 6

\* worker threads serving requests at the same time in SpecConc
NumThreads == 2

(* ------------------------- program constants -------------------------- *)

TitleMinLength == 1
TitleMaxLength == 120
DescriptionMinLength == 1
DescriptionMaxLength == 2000

(* ------------------------------ strings ------------------------------- *)

RECURSIVE Rep(_, _)
\* the string made of n copies of the one-character string c
Rep(c, n) ==
    IF n = 0 THEN ""
    ELSE IF n % 2 = 0
         THEN LET h == Rep(c, n \div 2) IN h \o h
         ELSE c \o Rep(c, n - 1)

\* Optional[...]: None, or a present value
None == <<>>
Some(v) == <<v>>
Val(o) == o[1]

Fields == {"title", "description", "tags"}

(* --------------------------- the dict PROJECTS ------------------------ *)

Keys(P) == {P[i].key : i \in DOMAIN P}

\* key in P
DictHas(P, k) == \E i \in DOMAIN P : P[i].key = k

\* P[k], for a key of P
DictItem(P, k) == P[CHOOSE i \in DOMAIN P : P[i].key = k].value

\* P.get(k): None when k is no key
DictGet(P, k) == IF DictHas(P, k) THEN Some(DictItem(P, k)) ELSE None

\* P[k] = v: in place for a key of P, appended otherwise
DictSet(P, k, v) ==
    IF DictHas(P, k)
    THEN [i \in DOMAIN P |-> IF P[i].key = k THEN [key |-> k, value |-> v] ELSE P[i]]
    ELSE Append(P, [key |-> k, value |-> v])

\* del P[k]
DictDel(P, k) == SelectSeq(P, LAMBDA e : e.key # k)

\* list(P.values())
DictValues(P) == [i \in DOMAIN P |-> P[i].value]

(* ------------------------------ uuid4 --------------------------------- *)

\* str(uuid.uuid4()): the n-th identifier generated by the process; a fresh
\* non-empty string every time
Uuid(n) == "uuid-" \o ToString(n)

(* --------------------------- pydantic models -------------------------- *)

\* mutant: the upper limit taken as exclusive
ValidTitle_exclusive(s) == Len(s) >= TitleMinLength /\ Len(s) < TitleMaxLength

\* ProjectBase.title: str, min_length=1, max_length=120
ValidTitle(s) == Len(s) >= TitleMinLength /\ Len(s) <= TitleMaxLength

\* mutant: max_length forgotten
ValidDescription_nomax(s) == Len(s) >= DescriptionMinLength

\* ProjectBase.description: str, min_length=1, max_length=2000
ValidDescription(s) == Len(s) >= DescriptionMinLength /\ Len(s) <= DescriptionMaxLength

\* ProjectBase / ProjectCreate: title and description required and not null,
\* tags optional (default []) and not null
ValidProjectCreate(body) ==
    /\ "title" \in DOMAIN body
    /\ body.title # None
    /\ ValidTitle(Val(body.title))
    /\ "description" \in DOMAIN body
    /\ body.description # None
    /\ ValidDescription(Val(body.description))
    /\ ("tags" \in DOMAIN body => body.tags # None)

\* payload.dict() of a validated ProjectCreate
ProjectCreateDict(body) ==
    [title |-> Val(body.title),
     description |-> Val(body.description),
     tags |-> IF "tags" \in DOMAIN body THEN Val(body.tags) ELSE <<>>]

\* mutant: ProjectUpdate.description declared without its limits
ValidProjectUpdate_title_only(body) ==
    "title" \in DOMAIN body /\ body.title # None => ValidTitle(Val(body.title))

\* ProjectUpdate: every field optional and nullable; a title or description
\* that is given and not null obeys the length limits
ValidProjectUpdate(body) ==
    /\ ("title" \in DOMAIN body /\ body.title # None => ValidTitle(Val(body.title)))
    /\ ("description" \in DOMAIN body /\ body.description # None
            => ValidDescription(Val(body.description)))

\* Project(**data): the constructor validates the ProjectBase fields again
ValidProject(data) == ValidTitle(data.title) /\ ValidDescription(data.description)

(* ------------------------------ responses ----------------------------- *)

Response(status, body) == [status |-> status, body |-> body]

NotFound == Response(404, [detail |-> "Project not found"])

\* FastAPI's answer to a body that fails the model's validation
Unprocessable == Response(422, [detail |-> "validation error"])

\* an exception escaping a handler
ServerError == Response(500, [detail |-> "Internal Server Error"])

(* ------------------------------ handlers ------------------------------ *)

\* class Project(ProjectBase): id plus the ProjectBase fields
Project(id, d) ==
    [id |-> id, title |-> d.title, description |-> d.description, tags |-> d.tags]

\* the three fixed examples of seed_data, in order
SeedExamples ==
    << [title |-> "Midnight Dashboard",
        description |-> "Clean analytics hub with high-contrast dark UI and buttery transitions.",
        tags |-> <<"React", "Framer Motion", "A11y">>],
       [title |-> "Aurora Docs",
        description |-> "Documentation site with focus-first typography and instant search.",
        tags |-> <<"Content", "Search", "Dark Mode">>],
       [title |-> "Shadow Commerce",
        description |-> "Performance-first storefront with snappy filters and crisp accents.",
        tags |-> <<"Performance", "UI/UX", "E-commerce">>] >>

RECURSIVE SeedInsert(_, _, _)
\* for p in examples: PROJECTS[p.id] = p   (examples i..3, ids Uuid(n+i))
SeedInsert(P, n, i) ==
    IF i > Len(SeedExamples) THEN P
    ELSE SeedInsert(DictSet(P, Uuid(n + i), Project(Uuid(n + i), SeedExamples[i])), n, i + 1)

\* mutant: the examples carry fixed ids instead of fresh uuids
seed_data_fixed_ids(P, n) ==
    IF P # <<>>
    THEN [store |-> P, uuids |-> n]
    ELSE [store |-> SeedInsert(P, 0, 1), uuids |-> n]

\* mutant: the emptiness check forgotten
seed_data_always(P, n) ==
    [store |-> SeedInsert(P, n, 1), uuids |-> n + Len(SeedExamples)]

\* seed_data(): nothing when PROJECTS is non-empty
seed_data(P, n) ==
    IF P # <<>>
    THEN [store |-> P, uuids |-> n]
    ELSE [store |-> SeedInsert(P, n, 1), uuids |-> n + Len(SeedExamples)]

read_root == Response(200, [message |-> "Portfolio API running"])

hello == Response(200, [message |-> "Hello from the backend API!"])

list_projects(P) == Response(200, DictValues(P))

\* mutant: no new uuid is drawn, the last one is used again
create_project_reuse_id(P, n, d) ==
    LET pid == Uuid(n)
        project == Project(pid, d)
    IN  [store |-> DictSet(P, pid, project), uuids |-> n, resp |-> Response(201, project)]

\* create_project(payload), payload.dict() = d
create_project(P, n, d) ==
    LET pid == Uuid(n + 1)
        project == Project(pid, d)
    IN  IF ~ValidProject(project)
        THEN [store |-> P, uuids |-> n + 1, resp |-> ServerError]
        ELSE [store |-> DictSet(P, pid, project), uuids |-> n + 1,
              resp |-> Response(201, project)]

get_project(P, project_id) ==
    LET project == DictGet(P, project_id)
    IN  IF project = None THEN NotFound ELSE Response(200, Val(project))

\* mutant: tags left out of the merge
MergeUpdates_drop_tags(project, payload) ==
    [f \in DOMAIN project |->
        IF f \in {"title", "description"} /\ f \in DOMAIN payload /\ payload[f] # None
        THEN Val(payload[f]) ELSE project[f]]

\* data = project.dict(); data.update({k: v for k, v in updates.items() if v is not None})
\* with updates = payload.dict(exclude_unset=True): the keys the body gave
MergeUpdates(project, payload) ==
    [f \in DOMAIN project |->
        IF f \in DOMAIN payload /\ payload[f] # None THEN Val(payload[f]) ELSE project[f]]

\* the part of update_project after the lookup found `project`
update_found(P, project_id, project, payload) ==
    LET updated == MergeUpdates(project, payload)
    IN  IF ~ValidProject(updated)
        THEN [store |-> P, resp |-> ServerError]
        ELSE [store |-> DictSet(P, project_id, updated), resp |-> Response(200, updated)]

update_project(P, project_id, payload) ==
    LET project == DictGet(P, project_id)
    IN  IF project = None
        THEN [store |-> P, resp |-> NotFound]
        ELSE update_found(P, project_id, Val(project), payload)

\* mutant: PROJECTS.pop(project_id, None), no 404
delete_project_pop(P, project_id) ==
    [store |-> DictDel(P, project_id), resp |-> Response(204, None)]

\* mutant: the whole store is cleared
delete_project_clear(P, project_id) ==
    IF ~DictHas(P, project_id)
    THEN [store |-> P, resp |-> NotFound]
    ELSE [store |-> <<>>, resp |-> Response(204, None)]

delete_project(P, project_id) ==
    IF ~DictHas(P, project_id)
    THEN [store |-> P, resp |-> NotFound]
    ELSE [store |-> DictDel(P, project_id), resp |-> Response(204, None)]

(* ------------------- requests: validation, then handler --------------- *)

\* POST /api/projects: the body is validated as a ProjectCreate before
\* create_project runs
PostProject(P, n, body) ==
    IF ~ValidProjectCreate(body)
    THEN [store |-> P, uuids |-> n, resp |-> Unprocessable, handled |-> FALSE]
    ELSE create_project(P, n, ProjectCreateDict(body)) @@ [handled |-> TRUE]

\* PUT|PATCH /api/projects/{project_id}: the body is validated as a
\* ProjectUpdate before update_project runs
PutProject(P, project_id, body) ==
    IF ~ValidProjectUpdate(body)
    THEN [store |-> P, resp |-> Unprocessable, handled |-> FALSE]
    ELSE update_project(P, project_id, body) @@ [handled |-> TRUE]

(* ------------------------------- inputs ------------------------------- *)

Title120 == Rep("t", TitleMaxLength)
Title121 == Rep("t", TitleMaxLength + 1)
Description2000 == Rep("d", DescriptionMaxLength)
Description2001 == Rep("d", DescriptionMaxLength + 1)

\* body with field f given as v (None: an explicit null)
With(body, f, v) == [g \in (DOMAIN body) \cup {f} |-> IF g = f THEN v ELSE body[g]]

\* body with field f left out
Without(body, f) == [g \in (DOMAIN body) \ {f} |-> body[g]]

\* the creation payload of the spec's scenario, and T2 of its round trip
BodyP == [title |-> Some("X"), description |-> Some("Y"), tags |-> Some(<<"a">>)]
T2 == "T2"

\* creation bodies: P, and P with one field left out, null, at a limit or
\* past a limit
CreateBodies ==
    {BodyP}
    \cup {Without(BodyP, f) : f \in Fields}
    \cup {With(BodyP, f, None) : f \in Fields}
    \cup {With(BodyP, "title", Some(s)) : s \in {"", Title120, Title121}}
    \cup {With(BodyP, "description", Some(s)) : s \in {"", Description2000, Description2001}}
    \cup {With(BodyP, "tags", Some(<<>>))}

\* update bodies: nothing, one field (null, at a limit, past a limit, new
\* value), and several fields at once
UpdateBodies ==
    {<<>>}
    \cup {With(<<>>, f, None) : f \in Fields}
    \cup {With(<<>>, "title", Some(s)) : s \in {"", T2, Title120, Title121}}
    \cup {With(<<>>, "description", Some(s)) : s \in {"", "Y2", Description2000, Description2001}}
    \cup {With(<<>>, "tags", Some(t)) : t \in {<<>>, <<"b", "a">>}}
    \cup {[title |-> Some(T2), description |-> Some("")],
          [title |-> None, description |-> Some("Y2"), tags |-> Some(<<>>)],
          [title |-> Some(T2), description |-> Some("Y2"), tags |-> Some(<<"b">>)]}

\* the inputs of a run: its request budget and the bodies its clients send
Rich == [max |-> MaxRequests, creates |-> CreateBodies, updates |-> UpdateBodies]
Life == [max |-> MaxLifeRequests, creates |-> {BodyP},
         updates |-> {[title |-> Some(T2)]}]

\* the identifiers a client asks for: every one generated so far, and one
\* that was never generated
RequestIds == {Uuid(i) : i \in 1..(uuids + 1)}

(* --------------------------- sequential runs -------------------------- *)

NoBody == <<>>

IdleThread == [pc |-> "idle"]

\* one request served from start to end: what was asked, what was answered,
\* the store before (pre) and after (PROJECTS)
Serve(max, op, pid, body, out) ==
    /\ nreq < max
    /\ nreq' = nreq + 1
    /\ pre' = PROJECTS
    /\ PROJECTS' = out.store
    /\ uuids' = out.uuids
    /\ last' = [op |-> op, pid |-> pid, body |-> body, resp |-> out.resp,
                handled |-> out.handled]
    /\ deleted' = IF op = "delete" /\ out.resp.status = 204
                  THEN deleted \cup {pid} ELSE deleted
    /\ UNCHANGED threads

\* a handler that only reads the store
ReadOnly(resp) == [store |-> PROJECTS, uuids |-> uuids, resp |-> resp, handled |-> TRUE]

ReadRoot(c) == Serve(c.max, "root", "", NoBody, ReadOnly(read_root))

Hello(c) == Serve(c.max, "hello", "", NoBody, ReadOnly(hello))

ListProjects(c) == Serve(c.max, "list", "", NoBody, ReadOnly(list_projects(PROJECTS)))

GetProject(c) ==
    \E pid \in RequestIds :
        Serve(c.max, "get", pid, NoBody, ReadOnly(get_project(PROJECTS, pid)))

CreateProject(c) ==
    \E body \in c.creates :
        Serve(c.max, "create", "", body, PostProject(PROJECTS, uuids, body))

UpdateProject(c) ==
    \E pid \in RequestIds, body \in c.updates :
        Serve(c.max, "update", pid, body,
              PutProject(PROJECTS, pid, body) @@ [uuids |-> uuids])

DeleteProject(c) ==
    \E pid \in RequestIds :
        Serve(c.max, "delete", pid, NoBody,
              delete_project(PROJECTS, pid) @@ [uuids |-> uuids, handled |-> TRUE])

\* seed_data() called again
SeedData(c) ==
    Serve(c.max, "seed", "", NoBody,
          seed_data(PROJECTS, uuids) @@ [resp |-> Response(0, None), handled |-> TRUE])

\* PROJECTS = {} (line 41), then seed_data() (line 71)
Init ==
    /\ PROJECTS = seed_data(<<>>, 0).store
    /\ uuids = seed_data(<<>>, 0).uuids
    /\ last = [op |-> "startup", pid |-> "", body |-> NoBody,
               resp |-> Response(0, None), handled |-> TRUE]
    /\ pre = <<>>
    /\ deleted = {}
    /\ nreq = 0
    /\ threads = [t \in 1..NumThreads |-> IdleThread]

Api(c) ==
    \/ ReadRoot(c)
    \/ Hello(c)
    \/ ListProjects(c)
    \/ GetProject(c)
    \/ CreateProject(c)
    \/ UpdateProject(c)
    \/ DeleteProject(c)
    \/ SeedData(c)

Next == Api(Rich)

Spec == Init /\ [][Next]_vars

NextLife == Api(Life)

SpecLife == Init /\ [][NextLife]_vars

(* --------------------------- concurrent runs -------------------------- *)
(* The handlers are plain `def` functions, which FastAPI runs on worker     *)
(* threads: handlers interleave between their accesses to PROJECTS, and     *)
(* each single dict access (get, in, item assignment, del) is one step.     *)

Threads == 1..NumThreads

\* the requests sent at the same time: valid bodies, two of the seed ids
ConcRequests ==
    {[op |-> "update", pid |-> Uuid(1), body |-> [title |-> Some(T2)]],
     [op |-> "update", pid |-> Uuid(1), body |-> [description |-> Some("Y2")]],
     [op |-> "update", pid |-> Uuid(2), body |-> [title |-> Some(T2)]],
     [op |-> "delete", pid |-> Uuid(1), body |-> NoBody],
     [op |-> "delete", pid |-> Uuid(2), body |-> NoBody],
     [op |-> "get", pid |-> Uuid(1), body |-> NoBody],
     [op |-> "list", pid |-> "", body |-> NoBody],
     [op |-> "create", pid |-> "", body |-> BodyP]}

Called(req) == [pc |-> "called", op |-> req.op, pid |-> req.pid, body |-> req.body]

Done(th, resp) ==
    [pc |-> "done", op |-> th.op, pid |-> th.pid, body |-> th.body, resp |-> resp]

\* mutant: `if project_id in PROJECTS: return PROJECTS[project_id]`, two
\* accesses to the dict instead of one
get_step_check_then_read(th, P) ==
    IF th.pc = "called"
    THEN IF DictHas(P, th.pid)
         THEN [th |-> [th EXCEPT !.pc = "found"], store |-> P]
         ELSE [th |-> Done(th, NotFound), store |-> P]
    ELSE IF DictHas(P, th.pid)
         THEN [th |-> Done(th, Response(200, DictItem(P, th.pid))), store |-> P]
         ELSE [th |-> Done(th, ServerError), store |-> P]

\* get_project: its one access, PROJECTS.get (line 99)
get_step(th, P) == [th |-> Done(th, get_project(P, th.pid)), store |-> P]

\* update_project: the lookup (line 108), then, with the record it found,
\* the merge and the write-back (lines 111-115)
update_step(th, P) ==
    IF th.pc = "called"
    THEN LET project == DictGet(P, th.pid)
         IN  IF project = None
             THEN [th |-> Done(th, NotFound), store |-> P]
             ELSE [th |-> [pc |-> "found", op |-> th.op, pid |-> th.pid,
                           body |-> th.body, project |-> Val(project)],
                   store |-> P]
    ELSE LET out == update_found(P, th.pid, th.project, th.body)
         IN  [th |-> Done(th, out.resp), store |-> out.store]

\* delete_project: the membership test (line 121), then del (line 123),
\* which raises KeyError when the key has gone in between
delete_step(th, P) ==
    IF th.pc = "called"
    THEN IF ~DictHas(P, th.pid)
         THEN [th |-> Done(th, NotFound), store |-> P]
         ELSE [th |-> [th EXCEPT !.pc = "found"], store |-> P]
    ELSE IF ~DictHas(P, th.pid)
         THEN [th |-> Done(th, ServerError), store |-> P]
         ELSE [th |-> Done(th, Response(204, None)), store |-> DictDel(P, th.pid)]

\* a request arrives and its handler is called on thread t
Start(t) ==
    /\ threads[t].pc = "idle"
    /\ \E req \in ConcRequests : threads' = [threads EXCEPT ![t] = Called(req)]
    /\ UNCHANGED <<PROJECTS, uuids, last, pre, deleted, nreq>>

\* thread t runs the handler step `out`
Run(t, out) ==
    /\ threads' = [threads EXCEPT ![t] = out.th]
    /\ PROJECTS' = out.store
    /\ UNCHANGED <<last, pre, deleted, nreq>>

\* the handler on this thread has been called and has not returned
InFlight(th) == th.pc \in {"called", "found"}

GetStep(t) ==
    /\ InFlight(threads[t])
    /\ threads[t].op = "get"
    /\ Run(t, get_step(threads[t], PROJECTS))
    /\ UNCHANGED uuids

\* list_projects: its one access, list(PROJECTS.values()) (line 86)
ListStep(t) ==
    /\ threads[t].pc = "called"
    /\ threads[t].op = "list"
    /\ Run(t, [th |-> Done(threads[t], list_projects(PROJECTS)), store |-> PROJECTS])
    /\ UNCHANGED uuids

\* create_project touches the store once (line 93); the uuid it drew does
\* not depend on the store
CreateStep(t) ==
    /\ threads[t].pc = "called"
    /\ threads[t].op = "create"
    /\ LET out == PostProject(PROJECTS, uuids, threads[t].body)
       IN  /\ Run(t, [th |-> Done(threads[t], out.resp), store |-> out.store])
           /\ uuids' = out.uuids

UpdateRead(t) ==
    /\ threads[t].pc = "called"
    /\ threads[t].op = "update"
    /\ Run(t, update_step(threads[t], PROJECTS))
    /\ UNCHANGED uuids

UpdateWrite(t) ==
    /\ threads[t].pc = "found"
    /\ threads[t].op = "update"
    /\ Run(t, update_step(threads[t], PROJECTS))
    /\ UNCHANGED uuids

DeleteCheck(t) ==
    /\ threads[t].pc = "called"
    /\ threads[t].op = "delete"
    /\ Run(t, delete_step(threads[t], PROJECTS))
    /\ UNCHANGED uuids

DeleteDel(t) ==
    /\ threads[t].pc = "found"
    /\ threads[t].op = "delete"
    /\ Run(t, delete_step(threads[t], PROJECTS))
    /\ UNCHANGED uuids

NextConc ==
    \E t \in Threads :
        \/ Start(t)
        \/ GetStep(t)
        \/ ListStep(t)
        \/ CreateStep(t)
        \/ UpdateRead(t)
        \/ UpdateWrite(t)
        \/ DeleteCheck(t)
        \/ DeleteDel(t)

SpecConc == Init /\ [][NextConc]_vars

\* the same requests served one after another, in the order `order` of
\* their threads, from store P with n uuids drawn
RECURSIVE SeqRun(_, _, _, _)
SeqRun(order, i, P, n) ==
    IF i > Len(order) THEN [store |-> P, resps |-> <<>>]
    ELSE LET th == threads[order[i]]
             out == CASE th.op = "get" -> [store |-> P, uuids |-> n, resp |-> get_project(P, th.pid)]
                      [] th.op = "list" -> [store |-> P, uuids |-> n, resp |-> list_projects(P)]
                      [] th.op = "create" -> PostProject(P, n, th.body)
                      [] th.op = "update" -> PutProject(P, th.pid, th.body) @@ [uuids |-> n]
                      [] th.op = "delete" -> delete_project(P, th.pid) @@ [uuids |-> n]
             rest == SeqRun(order, i + 1, out.store, out.uuids)
         IN  [store |-> rest.store, resps |-> <<out.resp>> \o rest.resps]

(* ------------------------------- claims ------------------------------- *)

\* the body gives field f a value that is not null
Given(body, f) == f \in DOMAIN body /\ body[f] # None

\* a title of 1..120 characters / a description of 1..2000 characters
TitleInLimits(s) == Len(s) \in 1..120
DescriptionInLimits(s) == Len(s) \in 1..2000

\* a title or description of the body breaks its length limit
BreaksLimits(body) ==
    \/ Given(body, "title") /\ ~TitleInLimits(Val(body.title))
    \/ Given(body, "description") /\ ~DescriptionInLimits(Val(body.description))

\* C1: get_project, update_project and delete_project called with an
\* identifier that is no key of the store answer 404 "Project not found",
\* whatever payload update_project received, and leave the store as it was.
C1_UnknownIdIs404 ==
    (/\ last.op \in {"get", "update", "delete"}
     /\ last.handled
     /\ ~DictHas(pre, last.pid))
    => /\ last.resp = [status |-> 404, body |-> [detail |-> "Project not found"]]
       /\ PROJECTS = pre

C1_Witness ==
    /\ last.op = "update"
    /\ last.handled
    /\ ~DictHas(pre, last.pid)
    /\ last.body = [title |-> Some(T2), description |-> Some("Y2"), tags |-> Some(<<"b">>)]
    /\ last.resp.status = 404
    /\ \E id \in deleted : id = last.pid

\* C2 (state part): an update of an existing id with a valid payload answers
\* 200 with the stored record; each field the payload gives non-null takes
\* the payload's value, each field absent or null keeps the stored value,
\* and the id is unchanged.
C2_MergeState ==
    (/\ last.op = "update"
     /\ ~BreaksLimits(last.body)
     /\ DictHas(pre, last.pid))
    => /\ last.resp.status = 200
       /\ DictGet(PROJECTS, last.pid) = Some(last.resp.body)
       /\ last.resp.body.id = last.pid
       /\ last.resp.body.id = DictItem(pre, last.pid).id
       /\ \A f \in Fields :
            last.resp.body[f] = IF Given(last.body, f)
                                THEN Val(last.body[f])
                                ELSE DictItem(pre, last.pid)[f]

\* C2 (round trip): create(P), then update(id, {title: T2}), then get(id)
\* yields P's record with title T2.
C2_RoundTrip ==
    (/\ last.op = "create"
     /\ last.resp.status = 201
     /\ last'.op = "update"
     /\ last'.pid = last.resp.body.id
     /\ DOMAIN last'.body = {"title"}
     /\ last'.body.title # None
     /\ TitleInLimits(Val(last'.body.title)))
    => get_project(PROJECTS', last'.pid)
         = [status |-> 200,
            body |-> [id |-> last.resp.body.id,
                      title |-> Val(last'.body.title),
                      description |-> Val(last.body.description),
                      tags |-> IF "tags" \in DOMAIN last.body
                               THEN Val(last.body.tags) ELSE <<>>]]

\* C2: partial update merges the payload into the stored record (state
\* part and round trip together).
C2_UpdateMerges == [] C2_MergeState /\ [][C2_RoundTrip]_vars

C2_Witness ==
    /\ last.op = "update"
    /\ last.body = [title |-> Some(T2)]
    /\ last.resp.status = 200
    /\ ~DictHas(SeedInsert(<<>>, 0, 1), last.pid)
    /\ get_project(PROJECTS, last.pid).body
         = [id |-> last.pid, title |-> T2, description |-> "Y", tags |-> <<"a">>]

\* C3: a valid creation payload (title 1..120, description 1..2000, tags a
\* sequence defaulting to empty) answers 201 with the payload's fields and
\* a non-empty generated id, and a get on that id returns the same record.
C3_CreateThenGet ==
    (/\ last.op = "create"
     /\ Given(last.body, "title") /\ TitleInLimits(Val(last.body.title))
     /\ Given(last.body, "description") /\ DescriptionInLimits(Val(last.body.description))
     /\ ("tags" \in DOMAIN last.body => last.body.tags # None))
    => /\ last.resp.status = 201
       /\ last.resp.body.title = Val(last.body.title)
       /\ last.resp.body.description = Val(last.body.description)
       /\ last.resp.body.tags = IF "tags" \in DOMAIN last.body
                                THEN Val(last.body.tags) ELSE <<>>
       /\ Len(last.resp.body.id) > 0
       /\ get_project(PROJECTS, last.resp.body.id)
            = [status |-> 200, body |-> last.resp.body]

C3_Witness ==
    /\ last.op = "create"
    /\ last.resp.status = 201
    /\ Len(last.resp.body.title) = 120
    /\ last.resp.body.tags = <<"a">>
    /\ get_project(PROJECTS, last.resp.body.id).status = 200

C5_InvalidRejected ==
    (last.op \in {"create", "update"} /\ BreaksLimits(last.body))
    => /\ last.resp.status = 422
       /\ PROJECTS = pre
       /\ list_projects(PROJECTS) = list_projects(pre)
       /\ (last.op = "update" => DictGet(PROJECTS, last.pid) = DictGet(pre, last.pid))

C5_Witness ==
    /\ last.op = "update"
    /\ DictHas(pre, last.pid)
    /\ Given(last.body, "title") /\ TitleInLimits(Val(last.body.title))
    /\ Given(last.body, "description") /\ Len(Val(last.body.description)) = 0
    /\ last.resp.status = 422

\* C6: after startup the store holds exactly the three seed projects under
\* three distinct ids; seed_data called on a non-empty store changes
\* nothing, and it inserts (the three seeds) only into an empty store.
C6_SeedOnce ==
    /\ (last.op = "startup" =>
            /\ Len(PROJECTS) = 3
            /\ [i \in 1..3 |-> PROJECTS[i].value.title]
                 = <<"Midnight Dashboard", "Aurora Docs", "Shadow Commerce">>
            /\ Cardinality(Keys(PROJECTS)) = 3)
    /\ (last.op = "seed" /\ pre # <<>> => PROJECTS = pre /\ Keys(PROJECTS) = Keys(pre))
    /\ (last.op = "seed" /\ PROJECTS # pre => pre = <<>>)
    /\ (last.op = "seed" /\ pre = <<>> =>
            /\ Len(PROJECTS) = 3
            /\ [i \in 1..3 |-> PROJECTS[i].value.title]
                 = <<"Midnight Dashboard", "Aurora Docs", "Shadow Commerce">>
            /\ Cardinality(Keys(PROJECTS)) = 3)

\* seed_data called again while the store holds a created project
C6_Witness ==
    /\ last.op = "seed"
    /\ pre # <<>>
    /\ \E i \in DOMAIN pre : pre[i].value.title = "X"

\* C7: every stored record has a title of 1..120 characters and a
\* description of 1..2000 characters.
C7_StoredWellFormed ==
    \A i \in DOMAIN PROJECTS :
        /\ TitleInLimits(PROJECTS[i].value.title)
        /\ DescriptionInLimits(PROJECTS[i].value.description)

\* an update past the limit was refused while a record sits at the limit
C7_Witness ==
    /\ last.op = "update"
    /\ Given(last.body, "title") /\ Len(Val(last.body.title)) = 121
    /\ DictHas(PROJECTS, last.pid)
    /\ Len(DictItem(PROJECTS, last.pid).title) = 120

\* C8: no two stored projects share an id and each record's id is its key;
\* an update keeps the key set and the record's id; a successful create
\* adds exactly one record, under an id that was not in the store.
C8_IdsUniqueAndFixed ==
    /\ \A i, j \in DOMAIN PROJECTS :
         /\ PROJECTS[i].value.id = PROJECTS[i].key
         /\ (i # j => PROJECTS[i].value.id # PROJECTS[j].value.id)
    /\ (last.op = "update" /\ last.resp.status = 200 =>
            /\ Keys(PROJECTS) = Keys(pre)
            /\ Len(PROJECTS) = Len(pre)
            /\ DictItem(PROJECTS, last.pid).id = DictItem(pre, last.pid).id)
    /\ (last.op = "create" /\ last.resp.status = 201 =>
            /\ ~DictHas(pre, last.resp.body.id)
            /\ Len(PROJECTS) = Len(pre) + 1
            /\ Keys(PROJECTS) = Keys(pre) \cup {last.resp.body.id})

\* a create that followed a delete
C8_Witness ==
    /\ last.op = "create"
    /\ last.resp.status = 201
    /\ deleted # {}
    /\ Len(PROJECTS) = 3

\* C10: a successful update or delete of id X leaves every other record and
\* the set of other keys as they were; a successful create leaves every
\* stored record as it was; read_root, hello, list_projects and get_project
\* leave the store as it was.
C10_Frame ==
    /\ (last.op \in {"update", "delete"} /\ last.resp.status \in {200, 204} =>
            /\ Keys(PROJECTS) \ {last.pid} = Keys(pre) \ {last.pid}
            /\ \A k \in Keys(pre) \ {last.pid} :
                   DictGet(PROJECTS, k) = DictGet(pre, k))
    /\ (last.op = "create" /\ last.resp.status = 201 =>
            \A k \in Keys(pre) : DictGet(PROJECTS, k) = DictGet(pre, k))
    /\ (last.op \in {"root", "hello", "list", "get"} => PROJECTS = pre)

\* a delete of one record while a created record is in the store
C10_Witness ==
    /\ last.op = "delete"
    /\ last.resp.status = 204
    /\ Len(PROJECTS) = 3
    /\ \E i \in DOMAIN PROJECTS : PROJECTS[i].value.title = "X"

\* every thread has served its request
AllDone == \A t \in Threads : threads[t].pc = "done"

\* the orders in which the threads' requests can be served one by one
Orders == {o \in [Threads -> Threads] : \A i, j \in Threads : i # j => o[i] # o[j]}

\* the store of the initial state
InitStore == seed_data(<<>>, 0).store

\* the final store and every response are those of some sequential order
Serializable ==
    \E o \in Orders :
        LET r == SeqRun(o, 1, InitStore, Len(InitStore))
        IN  /\ r.store = PROJECTS
            /\ \A i \in Threads : r.resps[i] = threads[o[i]].resp

\* two of the requests are an update or delete of the same id
SameIdRace ==
    \E t, u \in Threads :
        /\ t # u
        /\ threads[t].op \in {"update", "delete"}
        /\ threads[u].op \in {"update", "delete"}
        /\ threads[t].pid = threads[u].pid

RECURSIVE SomeUpdatesApplied(_, _)
\* the records that some of the updates of threads S, applied one after
\* another in some order to record r, leave
SomeUpdatesApplied(r, S) ==
    {r} \cup UNION {SomeUpdatesApplied([f \in DOMAIN r |->
                                            IF Given(threads[t].body, f)
                                            THEN Val(threads[t].body[f]) ELSE r[f]],
                                        S \ {t}) : t \in S}

\* C9 as claimed: concurrent requests leave the store and the responses of
\* some sequential order of the same requests.
C9_Atomic == AllDone => Serializable

\* C9 as amended: the outcome is that of a sequential order when no two of
\* the requests update or delete the same id; in every case the record left
\* under an id comes from the create that made it or from the initial
\* record by some of the racing updates (last write wins, the others lost),
\* and a delete answers 204, 404 or, when another delete won, 500.
C9_LastWriteWins ==
    AllDone =>
        /\ (~SameIdRace => Serializable)
        /\ \A i \in DOMAIN PROJECTS :
              LET k == PROJECTS[i].key
                  rec == PROJECTS[i].value
              IN  \/ \E t \in Threads :
                        threads[t].op = "create" /\ threads[t].resp = Response(201, rec)
                  \/ /\ DictHas(InitStore, k)
                     /\ rec \in SomeUpdatesApplied(
                                   DictItem(InitStore, k),
                                   {t \in Threads : threads[t].op = "update"
                                                    /\ threads[t].pid = k})
        /\ \A t \in Threads :
              threads[t].op = "delete" => threads[t].resp.status \in {204, 404, 500}

\* two updates of different fields of one record both answered 200 and the
\* description update is lost
C9_Witness ==
    /\ AllDone
    /\ \E t, u \in Threads :
         /\ threads[t].op = "update" /\ threads[t].body = [title |-> Some(T2)]
         /\ threads[u].op = "update" /\ threads[u].body = [description |-> Some("Y2")]
         /\ threads[t].pid = threads[u].pid
         /\ threads[t].resp.status = 200
         /\ threads[u].resp.status = 200
         /\ DictItem(PROJECTS, threads[t].pid).title = T2
         /\ DictItem(PROJECTS, threads[t].pid).description # "Y2"

====
